---- MODULE Spec2Model ----
(***************************************************************************)
(* Image Sequence -> MP4 / GIF converter (Tkinter front end over ffmpeg).  *)
(*                                                                         *)
(* The repository holds the same program in two behaviours:               *)
(*   "v1"  src/image_seq_converter.py : the stderr loop calls              *)
(*         self.update(), which services every pending Tk event (button    *)
(*         clicks, field edits, due timers) while the child still runs;    *)
(*   "v2"  src/img_seq_converter2.py (img_seq_converter3.py is the same    *)
(*         code without comments): the loop calls update_idletasks(),      *)
(*         which services redraws only, and breaks on poll().              *)
(* The variable build says which of the two is running.                    *)
(*                                                                         *)
(* Text is modelled as a sequence of string pieces, so that suffix tests,  *)
(* strip(), str() and "%04d" formatting are computed, not assumed.         *)
(***************************************************************************)
EXTENDS Integers, Sequences, FiniteSets, TLC

\* ------------------------------------------------------------- bounds
MaxRuns == 2
MaxLines == 1
MaxImages == 2
PipeCap == 2
MaxBurst == 2
MaxList == 3

Runs == 1..MaxRuns

\* ------------------------------------------------------------- text helpers
IMAGE_EXTS == {".png", ".jpg", ".jpeg", ".bmp", ".tif", ".tiff", ".webp"}

Lower(s) ==
  CASE s = ".PNG" -> ".png"
    [] s = ".JPG" -> ".jpg"
    [] OTHER -> s

IsSuffixPiece(s) == s \in IMAGE_EXTS \cup {".PNG", ".JPG", ".txt", ".mp4", ".gif"}

\* pathlib.Path(path).suffix : the last piece when it is an extension, else "".
Suffix(path) ==
  IF Len(path) > 1 /\ IsSuffixPiece(path[Len(path)]) THEN path[Len(path)] ELSE ""

is_image_file(path) == Lower(Suffix(path)) \in IMAGE_EXTS

\* str.endswith(ext)
EndsWith(text, ext) == Len(text) > 0 /\ text[Len(text)] = ext

IsSpace(s) == s = " "

RECURSIVE LStrip(_)
LStrip(text) ==
  IF text # <<>> /\ IsSpace(Head(text)) THEN LStrip(Tail(text)) ELSE text

RECURSIVE RStrip(_)
RStrip(text) ==
  IF text # <<>> /\ IsSpace(text[Len(text)])
  THEN RStrip(SubSeq(text, 1, Len(text) - 1))
  ELSE text

\* str.strip()
Strip(text) == RStrip(LStrip(text))

DigitChar(d) ==
  CASE d = 0 -> "0" [] d = 1 -> "1" [] d = 2 -> "2" [] d = 3 -> "3" [] d = 4 -> "4"
    [] d = 5 -> "5" [] d = 6 -> "6" [] d = 7 -> "7" [] d = 8 -> "8" [] d = 9 -> "9"

RECURSIVE Digits(_)
Digits(n) == IF n < 10 THEN <<DigitChar(n)>> ELSE Digits(n \div 10) \o <<DigitChar(n % 10)>>

\* str(n) for an integer n
Str(n) == IF n < 0 THEN <<"-">> \o Digits(0 - n) ELSE Digits(n)

RECURSIVE ZeroPad(_, _)
ZeroPad(text, width) == IF Len(text) >= width THEN text ELSE ZeroPad(<<"0">> \o text, width)

\* The field width of f"{i:04d}" and of the pattern's %04d.
Width == 4

\* f"{i:04d}" : at least four digits, zero filled; wider numbers keep all digits.
Pad4(i) == ZeroPad(Digits(i), Width)

\* ------------------------------------------------------------- input alphabet
ImgA == <<"a", ".png">>
ImgB == <<"b", ".jpg">>
ImgC == <<"c", ".PNG">>
ImagePaths == {ImgA, ImgB, ImgC}
PickPaths == {ImgA, ImgB}

\* A directory with two images and a text file, and what the file dialog offers:
\* images outside the directory, one inside it, and the text file.
InDir == <<"d">>
Notes == <<"n", ".txt">>
Listing == {<<"b", ".jpg">>, <<"a", ".png">>, Notes}
ImgD == <<"d", "/", "a", ".png">>
ListPicks == {ImgA, ImgC, ImgD, Notes}

OutMp4 == <<"output", ".mp4">>
OutGif == <<"output", ".gif">>
OutUser == <<"clip", ".mp4">>

\* What the user types into the fields while a conversion is under way.
OutputEdits == {OutUser}
CrfEdits == {18, 52}

\* Option settings a conversion is started from.
CrfValues == {-1, 0, 18, 51, 52}
FpsValues == {1, 25, 240}
Codecs == {"libx264", "libx265", "mpeg4"}
ScaleValues == {<<>>, <<" ">>, <<"4", "8", "0">>, <<"a", "b", "c">>, <<"-", "5">>, <<"0">>}

VARIABLES
  build,        \* "v1" | "v2"
  images,       \* self.images
  listbox,      \* self.listbox contents
  selection,    \* self.listbox.curselection(), positions counted from 1
  format_var, output_var, crf_var, scale_var, fps_var, codec_var,
  start_btn, cancel_btn,      \* "normal" | "disabled"
  clicks,       \* whether a click on Cancel waits in the event queue for the loop
  ffmpeg_proc,  \* self.ffmpeg_proc : 0 (None) or the run whose child it is
  log_text,     \* self.log_text
  timers,       \* pending after(100, self.run_ffmpeg) callbacks, in due order
  stack,        \* active handler frames (run_ffmpeg activations, modal dialogs)
  proc,         \* child processes, by the run that launched them: "none" | "running" |
                \* "exited", exit code, whether terminate() was sent, the unread stderr
                \* lines and how many were printed, the argument vector, the chunks
                \* held by the stdout pipe and whether a write to it blocks the child
  tmp,          \* temporary directories, by the run that created them:
                \* "none" | "exists" | "removed" | "leftover", and the files held
  runs          \* per accepted Start: "none" | "pending" | "active" | "done" | "crashed",
                \* the inputs at acceptance, the list the copy loop ran over, whether
                \* the loop completed, and the dialogs run_ffmpeg has shown

opts == <<format_var, output_var, crf_var, scale_var, fps_var, codec_var>>
lists == <<images, listbox, selection>>
btns == <<start_btn, cancel_btn>>
vars == <<build, images, listbox, selection, format_var, output_var, crf_var, scale_var, fps_var,
          codec_var, start_btn, cancel_btn, clicks, ffmpeg_proc, log_text, timers, stack,
          proc, tmp, runs>>

NoProc == [st |-> "none", rc |-> 0, term |-> FALSE, pipe |-> <<>>, sent |-> 0, argv |-> <<>>,
           out |-> 0, stuck |-> FALSE]
NoTmp == [st |-> "none", files |-> {}]
NoRun == [st |-> "none", snap |-> <<>>, list |-> <<>>, staged |-> FALSE, reports |-> <<>>,
          nrep |-> 0]

\* The inputs a run works from, as they stand at this moment.
Inputs == [images |-> images, format |-> format_var, output |-> output_var,
           crf |-> crf_var, scale |-> scale_var, fps |-> fps_var, codec |-> codec_var]

Defaults == [images |-> <<>>, format |-> "MP4", output |-> OutMp4, crf |-> 18,
             scale |-> <<>>, fps |-> 25, codec |-> "libx264"]

\* The state __init__ leaves, with the list and the option fields as the user has
\* set them before the first Start (in).
Constructed(in) ==
  /\ build \in {"v1", "v2"}
  /\ images = in.images
  /\ listbox = in.images
  /\ selection = {}
  /\ fps_var = in.fps
  /\ format_var = in.format
  /\ codec_var = in.codec
  /\ crf_var = in.crf
  /\ scale_var = in.scale
  /\ output_var = in.output
  /\ start_btn = "normal"
  /\ cancel_btn = "disabled"
  /\ clicks = FALSE
  /\ ffmpeg_proc = 0
  /\ log_text = <<>>
  /\ timers = <<>>
  /\ stack = <<>>
  /\ proc = [r \in Runs |-> NoProc]
  /\ tmp = [r \in Runs |-> NoTmp]
  /\ runs = [r \in Runs |-> NoRun]

\* Two images of different extensions are listed, options at their defaults.
Init == Constructed([Defaults EXCEPT !.images = <<ImgA, ImgB>>])

\* ------------------------------------------------------------- the Tk event loop
Top == stack[Len(stack)]

\* Where every pending event is serviced: the main loop, and in v1 the
\* self.update() call inside the stderr loop.
PumpAll == IF stack = <<>> THEN TRUE ELSE Top.pc = "update"

\* Where due timers are serviced: the above, and the nested loop of a modal
\* messagebox (which grabs input, so clicks on the main window are not delivered).
PumpTimers == IF stack = <<>> THEN TRUE ELSE Top.pc \in {"update", "msgbox"}

SetTop(f) == [stack EXCEPT ![Len(stack)] = f]
Pop == SubSeq(stack, 1, Len(stack) - 1)

FreeRuns == {r \in Runs : runs[r].st = "none"}
NextRun == CHOOSE r \in FreeRuns : \A q \in FreeRuns : r <= q

Report(title, text) == [title |-> title, text |-> text]

\* A messagebox.showinfo / showerror call made by run_ffmpeg, noted at its run.
Reported(run, report) ==
  [run EXCEPT !.reports = Append(@, report), !.nrep = @ + 1]

\* What is kept of a run once run_ffmpeg has returned: that it is over and how
\* many dialogs it showed. Its inputs and staged list are read by nothing again.
Finished(run) == [NoRun EXCEPT !.st = "done", !.nrep = run.nrep]

\* What is kept of a child that has exited and whose run is over: its exit
\* status, which self.ffmpeg_proc may still name. Nothing reads its pipe again.
Reaped(p) == [NoProc EXCEPT !.st = "exited", !.rc = p.rc]

\* ------------------------------------------------------------- file list
\* add_image without its membership test.
add_image_unchecked(list, path) == IF is_image_file(path) THEN Append(list, path) ELSE list

add_image(list, path) ==
  IF (\A i \in 1..Len(list) : list[i] # path) /\ is_image_file(path)
  THEN Append(list, path)
  ELSE list

RECURSIVE add_all(_, _)
add_all(list, files) ==
  IF files = <<>> THEN list ELSE add_all(add_image(list, Head(files)), Tail(files))

\* The list, the listbox and its selection, as the list handlers find them.
ListGui == [images |-> images, listbox |-> listbox, selection |-> selection]

\* add_files: every path add_image appends to the list is also inserted at the
\* end of the listbox; inserting at the end leaves the selection alone.
add_files(g, files) ==
  LET grown == add_all(g.images, files)
  IN [g EXCEPT !.images = grown,
               !.listbox = @ \o SubSeq(grown, Len(g.images) + 1, Len(grown))]

\* The order sorted() gives the names of a directory listing: by code point,
\* piece by piece (no piece used here is a prefix of another).
Collation == <<".PNG", ".jpg", ".png", ".txt", "/", "a", "b", "c", "d", "n">>

Ord(piece) == CHOOSE i \in 1..Len(Collation) : Collation[i] = piece

RECURSIVE Less(_, _)
Less(x, y) ==
  IF y = <<>> THEN FALSE
  ELSE IF x = <<>> THEN TRUE
  ELSE IF Head(x) # Head(y) THEN Ord(Head(x)) < Ord(Head(y))
  ELSE Less(Tail(x), Tail(y))

RECURSIVE sorted(_)
sorted(names) ==
  IF names = {} THEN <<>>
  ELSE LET first == CHOOSE x \in names : \A y \in names \ {x} : Less(x, y)
       IN <<first>> \o sorted(names \ {first})

join(folder, f) == folder \o <<"/">> \o f

\* add_folder: folder is what askdirectory returned (empty when the dialog was
\* cancelled), listing what os.listdir finds in it.
add_folder(g, folder, listing) ==
  IF folder = <<>> THEN g
  ELSE LET names == sorted(listing)
           paths == [i \in 1..Len(names) |-> join(folder, names[i])]
       IN add_files(g, SelectSeq(paths, is_image_file))

\* The selected positions in the order curselection() reports them, and reversed.
RECURSIVE Ascending(_)
Ascending(sel) ==
  IF sel = {} THEN <<>>
  ELSE LET least == CHOOSE x \in sel : \A y \in sel : x <= y
       IN <<least>> \o Ascending(sel \ {least})

Reverse(seq) == [i \in 1..Len(seq) |-> seq[Len(seq) + 1 - i]]

pop(list, idx) == SubSeq(list, 1, idx - 1) \o SubSeq(list, idx + 1, Len(list))

\* listbox.delete(idx) leaving the listbox as it was.
delete_nothing(g, idx) == g

\* listbox.delete(idx): the entry goes, and with it its selection mark; the
\* marks below it move up with their entries.
delete(g, idx) ==
  [g EXCEPT !.listbox = pop(@, idx),
            !.selection = {i \in @ : i < idx} \cup {i - 1 : i \in {j \in @ : j > idx}}]

\* remove_selected over the positions still to visit. A position past the end
\* of the list raises IndexError in pop: the newer builds pass over it, the
\* first build leaves the handler there.
RECURSIVE RemoveLoop(_, _, _)
RemoveLoop(b, g, sel) ==
  IF sel = <<>> THEN g
  ELSE LET idx == Head(sel)
       IN IF idx > Len(g.images)
          THEN IF b = "v1" THEN g ELSE RemoveLoop(b, delete(g, idx), Tail(sel))
          ELSE RemoveLoop(b, delete([g EXCEPT !.images = pop(@, idx)], idx), Tail(sel))

remove_selected(b, g) == RemoveLoop(b, g, Reverse(Ascending(g.selection)))

clear_list(g) == [images |-> <<>>, listbox |-> <<>>, selection |-> {}]

refresh_listbox(list) == [i \in 1..Len(list) |-> list[i]]

Swap(list, i, j) == [list EXCEPT ![i] = list[j], ![j] = list[i]]

\* The loop of move_item over the positions still to visit: the list so far, the
\* positions new_sel holds, and whether the swap raised IndexError (a selected
\* position past the end of the list).
RECURSIVE MoveLoop(_, _, _)
MoveLoop(m, sel, delta) ==
  IF sel = <<>> \/ m.raised THEN m
  ELSE LET idx == Head(sel)
           new_idx == idx + delta
       IN IF new_idx \in 1..Len(m.list)
          THEN IF idx > Len(m.list)
               THEN [m EXCEPT !.raised = TRUE]
               ELSE MoveLoop([m EXCEPT !.list = Swap(@, idx, new_idx),
                                       !.new_sel = Append(@, new_idx)], Tail(sel), delta)
          ELSE MoveLoop([m EXCEPT !.new_sel = Append(@, idx)], Tail(sel), delta)

\* What select_set(*(i + delta for i in sel)) of the first build marks in a
\* listbox of n entries: one position, or the range between two; positions
\* outside the listbox are clipped, and more than two arguments are a TypeError.
select_set(sel, delta, n) ==
  IF Len(sel) > 2 THEN {}
  ELSE {i \in 1..n : sel[1] + delta <= i /\ i <= sel[Len(sel)] + delta}

move_item(b, g, delta) ==
  LET sel == Ascending(g.selection)
      m == MoveLoop([list |-> g.images, new_sel |-> <<>>, raised |-> FALSE], sel, delta)
  IN IF sel = <<>> THEN g
     ELSE IF m.raised THEN [g EXCEPT !.images = m.list]
     ELSE [images |-> m.list,
           listbox |-> refresh_listbox(m.list),
           selection |-> IF b = "v1" THEN select_set(sel, delta, Len(m.list))
                         ELSE {m.new_sel[i] : i \in 1..Len(m.new_sel)}]

\* A list handler runs where the event loop delivers clicks, and leaves g.
ListBecomes(g) ==
  /\ PumpAll
  /\ images' = g.images
  /\ listbox' = g.listbox
  /\ selection' = g.selection
  /\ UNCHANGED <<build, clicks, opts, btns, ffmpeg_proc, log_text, timers, stack, proc, tmp, runs>>

\* The list stays within cap entries when files are offered to it.
Fits(files, cap) == Len(add_all(images, files)) <= cap

AddFiles(files) == ListBecomes(add_files(ListGui, files))

AddFolder(folder, listing) == ListBecomes(add_folder(ListGui, folder, listing))

RemoveSelected == ListBecomes(remove_selected(build, ListGui))

ClearList == ListBecomes(clear_list(ListGui))

MoveItem(delta) == ListBecomes(move_item(build, ListGui, delta))

\* The user marks entries of the listbox (selectmode EXTENDED).
SelectItems(sel) == ListBecomes([ListGui EXCEPT !.selection = sel])

\* ------------------------------------------------------------- option fields
update_format_options(fmt, out) ==
  IF build = "v1"
  THEN (IF fmt = "MP4" THEN OutMp4 ELSE OutGif)
  ELSE IF fmt = "MP4"
       THEN (IF out = <<>> \/ EndsWith(out, ".gif") THEN OutMp4 ELSE out)
       ELSE (IF out = <<>> \/ EndsWith(out, ".mp4") THEN OutGif ELSE out)

SwitchFormat(fmt) ==
  /\ PumpAll
  /\ format_var' = fmt
  /\ output_var' = update_format_options(fmt, output_var)
  /\ UNCHANGED <<build, clicks, lists, crf_var, scale_var, fps_var, codec_var, btns, ffmpeg_proc,
                 log_text, timers, stack, proc, tmp, runs>>

EditOutput(text) ==
  /\ PumpAll
  /\ output_var' = text
  /\ UNCHANGED <<build, clicks, lists, format_var, crf_var, scale_var, fps_var, codec_var, btns,
                 ffmpeg_proc, log_text, timers, stack, proc, tmp, runs>>

EditCrf(n) ==
  /\ PumpAll
  /\ crf_var' = n
  /\ UNCHANGED <<build, clicks, lists, format_var, output_var, scale_var, fps_var, codec_var, btns,
                 ffmpeg_proc, log_text, timers, stack, proc, tmp, runs>>

\* ------------------------------------------------------------- Start / Cancel
start_accepts == images # <<>> /\ Strip(output_var) # <<>>

start_conversion ==
  /\ PumpAll
  /\ start_btn = "normal"
  /\ IF start_accepts
     THEN /\ FreeRuns # {}
          /\ start_btn' = "disabled"
          /\ cancel_btn' = "normal"
          /\ log_text' = <<>>
          /\ timers' = Append(timers, NextRun)
          /\ runs' = [runs EXCEPT ![NextRun] =
                        [NoRun EXCEPT !.st = "pending", !.snap = Inputs]]
     ELSE UNCHANGED <<btns, log_text, timers, runs>>
  /\ UNCHANGED <<build, clicks, lists, opts, ffmpeg_proc, stack, proc, tmp>>

\* What cancel_conversion reads and writes: the children, the log, the buttons.
Gui == [proc |-> proc, log |-> log_text, start |-> start_btn, cancel |-> cancel_btn]

\* if self.ffmpeg_proc and self.ffmpeg_proc.poll() is None
Terminates(g) == ffmpeg_proc # 0 /\ g.proc[ffmpeg_proc].st = "running"

\* Whether cancel_conversion calls terminate(): a child is held and poll() is None.
cancel_terminates == Terminates(Gui)

\* A handler that logs the termination in every build.
cancel_logged(g) ==
  [proc |-> IF Terminates(g) THEN [g.proc EXCEPT ![ffmpeg_proc].term = TRUE] ELSE g.proc,
   log |-> IF Terminates(g) THEN Append(g.log, <<"terminated by user">>) ELSE g.log,
   start |-> "normal",
   cancel |-> "disabled"]

\* The body of cancel_conversion, from the state it finds to the state it leaves.
cancel_result(g) ==
  [proc |-> IF Terminates(g) THEN [g.proc EXCEPT ![ffmpeg_proc].term = TRUE] ELSE g.proc,
   log |-> IF Terminates(g) /\ build = "v2"
           THEN Append(g.log, <<"terminated by user">>)
           ELSE g.log,
   start |-> "normal",
   cancel |-> "disabled"]

cancel_conversion ==
  /\ PumpAll
  /\ cancel_btn = "normal"
  /\ proc' = cancel_result(Gui).proc
  /\ log_text' = cancel_result(Gui).log
  /\ start_btn' = cancel_result(Gui).start
  /\ cancel_btn' = cancel_result(Gui).cancel
  /\ clicks' = FALSE
  /\ UNCHANGED <<build, lists, opts, ffmpeg_proc, timers, stack, tmp, runs>>

\* The user clicks Cancel while a handler keeps the event loop from running: the
\* window system queues the click.
ClickCancel ==
  /\ ~PumpTimers
  /\ cancel_btn = "normal"
  /\ ~clicks
  /\ clicks' = TRUE
  /\ UNCHANGED <<build, lists, opts, btns, ffmpeg_proc, log_text, timers, stack, proc, tmp,
                 runs>>

\* The event loop runs and takes a queued click that invokes nothing: the button
\* is disabled by then, or a modal dialog holds the grab.
DropClick ==
  /\ clicks
  /\ PumpTimers
  /\ ~(PumpAll /\ cancel_btn = "normal")
  /\ clicks' = FALSE
  /\ UNCHANGED <<build, lists, opts, btns, ffmpeg_proc, log_text, timers, stack, proc, tmp,
                 runs>>

\* ------------------------------------------------------------- run_ffmpeg: staging
\* tempfile.mkdtemp(prefix="imgseq_") : a fresh name per call
TmpName(r) == <<"imgseq_">> \o Digits(r)

\* A naming that ignores the index: every copy lands on the first frame's name.
FrameNameFirst(i, ext) == <<"img">> \o Pad4(1) \o <<ext>>

FrameName(i, ext) == <<"img">> \o Pad4(i) \o <<ext>>

\* shutil.copy2(src, dst) into a directory held as a set of <<name, content>>;
\* the content of a copy is identified by the source path it was read from.
WriteFile(files, name, content) == {f \in files : f[1] # name} \cup {<<name, content>>}

\* The directory after the writes of later are applied to files.
WriteAll(files, later) ==
  LET names == {f[1] : f \in later}
  IN {f \in files : f[1] \notin names} \cup later

\* for i, src in enumerate(self.images, start=1): copy2(src, tmpdir/img{i:04d}{ext}),
\* for the entries lo..hi in list order. The fold over the writes is split in
\* halves so that long lists evaluate in logarithmic depth; a later write still
\* replaces an earlier one of the same name.
RECURSIVE CopyLoop(_, _, _, _)
CopyLoop(list, ext, lo, hi) ==
  IF lo > hi THEN {}
  ELSE IF lo = hi THEN WriteFile({}, FrameName(lo, ext), list[lo])
  ELSE LET mid == (lo + hi) \div 2
       IN WriteAll(CopyLoop(list, ext, lo, mid), CopyLoop(list, ext, mid + 1, hi))

\* The temp dir after the first k copies; ext = Path(self.images[0]).suffix.
StagedFiles(list, k) == CopyLoop(list, Suffix(list[1]), 1, k)

\* A pattern whose frame number is not zero filled.
PatternUnpadded(r, ext) == TmpName(r) \o <<"/", "img", "%d", ext>>

\* os.path.join(tmpdir, f"img%04d{ext}")
Pattern(r, ext) == TmpName(r) \o <<"/", "img", "%04d", ext>>

\* ------------------------------------------------------------- run_ffmpeg: command
resolve_ffmpeg_executable == <<"ffmpeg">>

ffmpeg_path == IF build = "v1" THEN <<"ffmpeg">> ELSE resolve_ffmpeg_executable

\* "split [a][b]; [a] palettegen=stats_mode=full [p]; [b][p] paletteuse=dither=floyd_steinberg"
PaletteGraph ==
  <<"split [a][b]; [a] ", "palettegen=stats_mode=full", " [p]; [b][p] ",
    "paletteuse=dither=floyd_steinberg">>

\* A filter chain whose scale step is there whether or not a width was given.
VfAlwaysScaled(scale) ==
  <<"scale=">> \o Strip(scale) \o <<":-1:flags=lanczos">> \o <<",">> \o PaletteGraph

\* ",".join(vf_parts)
VfStr(scale) ==
  IF Strip(scale) # <<>>
  THEN <<"scale=">> \o Strip(scale) \o <<":-1:flags=lanczos">> \o <<",">> \o PaletteGraph
  ELSE PaletteGraph

\* A command without the overwrite flag.
BuildCmdAsking(exe, pattern, in) ==
  IF in.format = "MP4"
  THEN << exe, <<"-framerate">>, Str(in.fps), <<"-i">>, pattern,
          <<"-c:v">>, <<in.codec>>, <<"-crf">>, Str(in.crf), <<"-pix_fmt">>, <<"yuv420p">>,
          in.output >>
  ELSE << exe, <<"-framerate">>, Str(in.fps), <<"-i">>, pattern,
          <<"-vf">>, <<"scale=">> \o in.scale, in.output >>

\* The argument vector, one sequence of text pieces per argument.
BuildCmd(exe, pattern, in) ==
  IF in.format = "MP4"
  THEN << exe, <<"-y">>, <<"-framerate">>, Str(in.fps), <<"-i">>, pattern,
          <<"-c:v">>, <<in.codec>>, <<"-crf">>, Str(in.crf), <<"-pix_fmt">>, <<"yuv420p">>,
          in.output >>
  ELSE << exe, <<"-y">>, <<"-framerate">>, Str(in.fps), <<"-i">>, pattern,
          <<"-vf">>, VfStr(in.scale), in.output >>

\* ------------------------------------------------------------- run_ffmpeg: entry
\* A due after() callback is serviced: run_ffmpeg runs, without returning to the
\* event loop, up to its first blocking point. One action per way it can go.
TimerDue == PumpTimers /\ timers # <<>>
Due == Head(timers)

Frame(r, pc, exc) == [run |-> r, pc |-> pc, exc |-> exc]

\* A handler without the except FileNotFoundError clause.
GenericReport(exc) == Report("Error", <<exc>>)

\* except FileNotFoundError -> the "ffmpeg not found" dialog; except Exception ->
\* the "Error" dialog with str(e).
ErrorReport(exc) ==
  IF exc = "FileNotFoundError"
  THEN Report("ffmpeg not found", <<"ffmpeg executable not found">>)
  ELSE Report("Error", <<exc>>)

\* mkdtemp raises: it is called before the try, so the exception leaves the
\* callback and neither the except clauses nor the finally run.
RunMkdtempFails ==
  /\ TimerDue
  /\ timers' = Tail(timers)
  /\ runs' = [runs EXCEPT ![Due] = [NoRun EXCEPT !.st = "crashed"]]
  /\ UNCHANGED <<build, clicks, lists, opts, btns, ffmpeg_proc, log_text, stack, proc, tmp>>

\* A failed staging that starts a child all the same.
RunStageFailsLaunching(k, exc) ==
  /\ TimerDue
  /\ IF images = <<>>
     THEN k = 0 /\ exc = "IndexError"
     ELSE k < Len(images) /\ exc \in {"FileNotFoundError", "OSError"}
  /\ timers' = Tail(timers)
  /\ tmp' = [tmp EXCEPT ![Due] =
               [st |-> "exists",
                files |-> IF images = <<>> THEN {} ELSE StagedFiles(images, k)]]
  /\ runs' = [runs EXCEPT ![Due] = Reported([@ EXCEPT !.st = "active", !.list = images],
                                             ErrorReport(exc))]
  /\ stack' = Append(stack, Frame(Due, "msgbox", exc))
  /\ proc' = [proc EXCEPT ![Due].st = "running"]
  /\ UNCHANGED <<build, clicks, lists, opts, btns, ffmpeg_proc, log_text>>

\* Staging raises after k copies: IndexError on self.images[0] for an empty list,
\* else the copy of entry k+1 fails (missing source: FileNotFoundError; permissions,
\* disk full: OSError).
RunStageFails(k, exc) ==
  /\ TimerDue
  /\ IF images = <<>>
     THEN k = 0 /\ exc = "IndexError"
     ELSE k < Len(images) /\ exc \in {"FileNotFoundError", "OSError"}
  /\ timers' = Tail(timers)
  /\ tmp' = [tmp EXCEPT ![Due] =
               [st |-> "exists",
                files |-> IF images = <<>> THEN {} ELSE StagedFiles(images, k)]]
  /\ runs' = [runs EXCEPT ![Due] = Reported([@ EXCEPT !.st = "active", !.list = images],
                                             ErrorReport(exc))]
  /\ stack' = Append(stack, Frame(Due, "msgbox", exc))
  /\ UNCHANGED <<build, clicks, lists, opts, btns, ffmpeg_proc, log_text, proc>>

\* Staging succeeds, the command is built and logged, and Popen raises:
\* FileNotFoundError when the executable is missing, OSError otherwise.
RunLaunchFails(exc) ==
  /\ TimerDue
  /\ images # <<>>
  /\ exc \in {"FileNotFoundError", "OSError"}
  /\ timers' = Tail(timers)
  /\ tmp' = [tmp EXCEPT ![Due] =
               [st |-> "exists", files |-> StagedFiles(images, Len(images))]]
  /\ log_text' = Append(log_text, <<"Running", Due>>)
  /\ runs' = [runs EXCEPT ![Due] =
                Reported([@ EXCEPT !.st = "active", !.list = images, !.staged = TRUE],
                         ErrorReport(exc))]
  /\ stack' = Append(stack, Frame(Due, "msgbox", exc))
  /\ UNCHANGED <<build, clicks, lists, opts, btns, ffmpeg_proc, proc>>

\* Staging succeeds and Popen returns: the child runs, self.ffmpeg_proc holds it,
\* and run_ffmpeg blocks reading the child's stderr.
RunLaunches ==
  /\ TimerDue
  /\ images # <<>>
  /\ timers' = Tail(timers)
  /\ tmp' = [tmp EXCEPT ![Due] =
               [st |-> "exists", files |-> StagedFiles(images, Len(images))]]
  /\ log_text' = Append(log_text, <<"Running", Due>>)
  /\ proc' = [proc EXCEPT ![Due] =
               [NoProc EXCEPT !.st = "running",
                  !.argv = BuildCmd(ffmpeg_path, Pattern(Due, Suffix(images[1])), Inputs)]]
  /\ ffmpeg_proc' = Due
  /\ runs' = [runs EXCEPT ![Due].st = "active", ![Due].list = images, ![Due].staged = TRUE]
  /\ stack' = Append(stack, Frame(Due, "reading", ""))
  /\ UNCHANGED <<build, clicks, lists, opts, btns>>

\* ------------------------------------------------------------- the child process
ExitCodes == {0, 1}

\* After terminate(): killed by the signal, or gone by itself (exit code 0) in the
\* window between poll() and the signal's delivery.
TermExitCodes == {0, -15}

\* The child prints one more line to its stderr pipe, having printed fewer than
\* limit; a line is identified by its place in what the child prints.
Emit(r, limit) ==
  /\ proc[r].st = "running"
  /\ ~proc[r].stuck
  /\ proc[r].sent < limit
  /\ proc' = [proc EXCEPT ![r].sent = @ + 1, ![r].pipe = Append(@, proc[r].sent + 1)]
  /\ UNCHANGED <<build, clicks, lists, opts, btns, ffmpeg_proc, log_text, timers, stack, tmp, runs>>

ChildEmit(r) == Emit(r, MaxLines)

\* A child that prints up to MaxBurst lines.
ChildBurst(r) == Emit(r, MaxBurst)

ChildExit(r, rc) ==
  /\ proc[r].st = "running"
  /\ proc[r].stuck => proc[r].term
  /\ rc \in (IF proc[r].term THEN TermExitCodes ELSE ExitCodes)
  /\ proc' = [proc EXCEPT ![r] = IF runs[r].st = "done"
                                  THEN Reaped([@ EXCEPT !.rc = rc])
                                  ELSE [@ EXCEPT !.st = "exited", !.rc = rc]]
  /\ UNCHANGED <<build, clicks, lists, opts, btns, ffmpeg_proc, log_text, timers, stack, tmp, runs>>

\* The child writes a chunk to its standard output, a pipe (stdout=PIPE) that
\* holds PipeCap chunks and that run_ffmpeg never reads: with the pipe full the
\* write blocks the child until it is killed.
ChildWriteOut(r) ==
  /\ proc[r].st = "running"
  /\ ~proc[r].stuck
  /\ proc' = IF proc[r].out < PipeCap
             THEN [proc EXCEPT ![r].out = @ + 1]
             ELSE [proc EXCEPT ![r].stuck = TRUE]
  /\ UNCHANGED <<build, clicks, lists, opts, btns, ffmpeg_proc, log_text, timers, stack, tmp,
                 runs>>

\* ------------------------------------------------------------- run_ffmpeg: stderr loop
\* self.ffmpeg_proc.poll() is not None
Polled == proc[ffmpeg_proc].st = "exited"

\* A reader that takes the newest line of the pipe instead of the oldest.
ReadNewest ==
  /\ stack # <<>>
  /\ Top.pc = "reading"
  /\ proc[Top.run].pipe # <<>>
  /\ proc' = [proc EXCEPT ![Top.run].pipe = SubSeq(@, 1, Len(@) - 1)]
  /\ log_text' = Append(log_text, <<"line", Top.run,
                                     proc[Top.run].pipe[Len(proc[Top.run].pipe)]>>)
  /\ stack' = SetTop([Top EXCEPT !.pc =
                 IF build = "v1" THEN "update"
                 ELSE IF Polled THEN "wait" ELSE "reading"])
  /\ UNCHANGED <<build, clicks, lists, opts, btns, ffmpeg_proc, timers, tmp, runs>>

\* for line in self.ffmpeg_proc.stderr: the iterator is bound to the child this
\* activation launched; one line is read and logged. v1 then calls self.update();
\* v2 calls update_idletasks() and leaves the loop when poll() reports an exit.
ReadLine ==
  /\ stack # <<>>
  /\ Top.pc = "reading"
  /\ proc[Top.run].pipe # <<>>
  /\ proc' = [proc EXCEPT ![Top.run].pipe = Tail(@)]
  /\ log_text' = Append(log_text, <<"line", Top.run, Head(proc[Top.run].pipe)>>)
  /\ stack' = SetTop([Top EXCEPT !.pc =
                 IF build = "v1" THEN "update"
                 ELSE IF Polled THEN "wait" ELSE "reading"])
  /\ UNCHANGED <<build, clicks, lists, opts, btns, ffmpeg_proc, timers, tmp, runs>>

\* self.update() returns, every queued event serviced: back to the blocking read.
UpdateReturns ==
  /\ stack # <<>>
  /\ Top.pc = "update"
  /\ ~clicks
  /\ stack' = SetTop([Top EXCEPT !.pc = "reading"])
  /\ UNCHANGED <<build, clicks, lists, opts, btns, ffmpeg_proc, log_text, timers, proc, tmp, runs>>

\* End of file on the child's stderr: the child has exited and the pipe is drained.
ReadEOF ==
  /\ stack # <<>>
  /\ Top.pc = "reading"
  /\ proc[Top.run].pipe = <<>>
  /\ proc[Top.run].st = "exited"
  /\ stack' = SetTop([Top EXCEPT !.pc = "wait"])
  /\ UNCHANGED <<build, clicks, lists, opts, btns, ffmpeg_proc, log_text, timers, proc, tmp, runs>>

\* ------------------------------------------------------------- run_ffmpeg: outcome
\* if rc == 0: showinfo("Done", f"Exported: {self.output_var.get()}")
\* else: showerror("Error", "ffmpeg failed. ...")
ExitReport(rc, out) ==
  IF rc = 0 THEN Report("Done", out) ELSE Report("Error", <<"ffmpeg failed">>)

ExitLog(rc) == IF rc = 0 THEN <<"Finished successfully">> ELSE <<"ffmpeg exited with code", rc>>

\* rc = self.ffmpeg_proc.wait() returns (the child self.ffmpeg_proc names at this
\* moment has exited); the result is logged and the dialog is shown.
\* self.ffmpeg_proc is never None here: v1 never resets it, and v2 resets it only
\* in a finally that no event loop inside the stderr loop can reach.
WaitReturns ==
  /\ stack # <<>>
  /\ Top.pc = "wait"
  /\ ffmpeg_proc # 0
  /\ Polled
  /\ log_text' = Append(log_text, ExitLog(proc[ffmpeg_proc].rc))
  /\ runs' = [runs EXCEPT ![Top.run] =
                Reported(@, ExitReport(proc[ffmpeg_proc].rc, output_var))]
  /\ stack' = SetTop([Top EXCEPT !.pc = "msgbox"])
  /\ UNCHANGED <<build, clicks, lists, opts, btns, ffmpeg_proc, timers, proc, tmp>>

\* shutil.rmtree(tmpdir), errors swallowed: the directory is gone, or the deletion
\* failed and it is left on disk ("leftover").
rmtree(dir, ok) == IF ok THEN [st |-> "removed", files |-> {}] ELSE [dir EXCEPT !.st = "leftover"]

\* The end of run_ffmpeg with rmtree unguarded: its error leaves the finally
\* clause before the buttons are reset.
DialogDismissedUnguarded(ok) ==
  /\ stack # <<>>
  /\ Top.pc = "msgbox"
  /\ log_text' = IF build = "v2" /\ Top.exc \notin {"", "FileNotFoundError"}
                 THEN Append(log_text, <<"Exception", Top.exc>>)
                 ELSE log_text
  /\ tmp' = [tmp EXCEPT ![Top.run] = rmtree(@, ok)]
  /\ start_btn' = IF ok THEN "normal" ELSE start_btn
  /\ cancel_btn' = IF ok THEN "disabled" ELSE cancel_btn
  /\ ffmpeg_proc' = IF build = "v2" THEN 0 ELSE ffmpeg_proc
  /\ runs' = [runs EXCEPT ![Top.run] = Finished(@)]
  /\ proc' = [proc EXCEPT ![Top.run] = IF @.st = "exited" THEN Reaped(@) ELSE @]
  /\ stack' = Pop
  /\ UNCHANGED <<build, clicks, lists, opts, timers>>

\* The dialog is dismissed and run_ffmpeg runs to its end: v2 logs a generic
\* exception; then the finally clause.
DialogDismissed(ok) ==
  /\ stack # <<>>
  /\ Top.pc = "msgbox"
  /\ log_text' = IF build = "v2" /\ Top.exc \notin {"", "FileNotFoundError"}
                 THEN Append(log_text, <<"Exception", Top.exc>>)
                 ELSE log_text
  /\ tmp' = [tmp EXCEPT ![Top.run] = rmtree(@, ok)]
  /\ start_btn' = "normal"
  /\ cancel_btn' = "disabled"
  /\ ffmpeg_proc' = IF build = "v2" THEN 0 ELSE ffmpeg_proc
  /\ runs' = [runs EXCEPT ![Top.run] = Finished(@)]
  /\ proc' = [proc EXCEPT ![Top.run] = IF @.st = "exited" THEN Reaped(@) ELSE @]
  /\ stack' = Pop
  /\ UNCHANGED <<build, clicks, lists, opts, timers>>

\* ------------------------------------------------------------- specification
UserEdits ==
  \/ \E f \in PickPaths : Fits(<<f>>, MaxImages) /\ AddFiles(<<f>>)
  \/ ClearList
  \/ \E fmt \in {"MP4", "GIF"} : SwitchFormat(fmt)
  \/ \E text \in OutputEdits : EditOutput(text)
  \/ \E n \in CrfEdits : EditCrf(n)


\* A due after() callback runs run_ffmpeg up to its first blocking point.
TimerFires ==
  \/ RunMkdtempFails
  \/ \E k \in 0..MaxImages, exc \in {"IndexError", "FileNotFoundError", "OSError"} :
       RunStageFails(k, exc)
  \/ \E exc \in {"FileNotFoundError", "OSError"} : RunLaunchFails(exc)
  \/ RunLaunches

\* A blocking call inside run_ffmpeg returns.
Returns ==
  \/ ReadLine
  \/ UpdateReturns
  \/ ReadEOF
  \/ WaitReturns
  \/ \E ok \in BOOLEAN : DialogDismissed(ok)

ChildExits == \E r \in Runs, rc \in ExitCodes \cup TermExitCodes : ChildExit(r, rc)

\* Everything but Start and the child's printing.
Steps == cancel_conversion \/ TimerFires \/ ChildExits \/ Returns

\* Everything but an accepted or refused Start. A click on Cancel is delivered
\* as cancel_conversion where the event loop runs; clicks made while it is
\* blocked are the subject of SpecLive.
Progress == Steps \/ \E r \in Runs : ChildEmit(r)

Next == start_conversion \/ Progress

\* Conversions over a fixed list and fixed options: every interleaving of Start,
\* Cancel, timers, the children and the dialogs.
Spec == Init /\ [][Next]_vars

\* Start, in the behaviours where no Start has been accepted before.
FirstStart == start_conversion /\ FreeRuns = Runs

\* ------------------------------------------------------------- one conversion, inputs edited
InitEdit == Constructed(Defaults)

NextEdit == FirstStart \/ Progress \/ UserEdits

\* From the state __init__ leaves: the user fills the list, edits the fields
\* at any time the event loop lets them, and starts one conversion.
SpecEdit == InitEdit /\ [][NextEdit]_vars

\* ------------------------------------------------------------- one conversion per option setting
OptionSettings ==
  [images : {<<ImgA>>}, format : {"MP4", "GIF"}, output : {OutMp4, OutUser},
   crf : CrfValues, scale : ScaleValues, fps : FpsValues, codec : Codecs]

InitBuild == \E in \in OptionSettings : Constructed(in)

NextOne == FirstStart \/ Progress

SpecBuild == InitBuild /\ [][NextOne]_vars

\* ------------------------------------------------------------- one conversion per image list
NoRepeat(l) == \A i, j \in 1..Len(l) : i # j => l[i] # l[j]

RECURSIVE UniqueLists(_)
UniqueLists(n) ==
  IF n = 0 THEN {<<>>}
  ELSE LET shorter == UniqueLists(n - 1)
           longer == {Append(l, p) : l \in shorter, p \in ImagePaths}
       IN shorter \cup {l \in longer : NoRepeat(l)}

InitStage == \E list \in UniqueLists(MaxImages) : Constructed([Defaults EXCEPT !.images = list])

SpecStage == InitStage /\ [][NextOne]_vars

\* ------------------------------------------------------------- one conversion of a long list
\* The largest frame number Width digits can hold.
Capacity == 10^Width - 1

\* Capacity + 1 distinct image paths.
ManyImages == [i \in 1..(Capacity + 1) |-> <<"f">> \o Digits(i) \o <<".png">>]

InitMany == Constructed([Defaults EXCEPT !.images = ManyImages])

SpecMany == InitMany /\ [][NextOne]_vars

\* One conversion over each of the short lists and over the long one.
SpecFrames == (InitStage \/ InitMany) /\ [][NextOne]_vars

\* ------------------------------------------------------------- one conversion, Cancel clicked at any time
\* A queued click is taken by the event loop as soon as the loop runs.
Serviced == (clicks /\ cancel_conversion) \/ DropClick

NextLive == FirstStart \/ Progress \/ ClickCancel \/ DropClick

\* The event loop services what is due, and blocking calls return when what they
\* wait for has happened (the user dismisses dialogs). Nothing is assumed of the
\* child: it prints and exits when it does.
Fairness == WF_vars(Serviced) /\ WF_vars(TimerFires) /\ WF_vars(Returns)

SpecLive == Init /\ [][NextLive]_vars /\ Fairness

\* The same, with a child that does not run forever: it exits by itself or on
\* terminate().
SpecEnds == SpecLive /\ WF_vars(ChildExits)

\* ------------------------------------------------------------- one conversion, a child that writes to stdout
ChildMoves ==
  \/ \E r \in Runs : ChildEmit(r)
  \/ \E r \in Runs : ChildWriteOut(r)
  \/ ChildExits

NextPipe == FirstStart \/ Steps \/ ChildMoves

SpecPipe == Init /\ [][NextPipe]_vars

\* ------------------------------------------------------------- two conversions, children that print more
\* Start, in the behaviours where at most one Start has been accepted before.
TwoStarts == start_conversion /\ Cardinality(FreeRuns) > MaxRuns - 2

NextLines == TwoStarts \/ Steps \/ \E r \in Runs : ChildBurst(r)

SpecLines == Init /\ [][NextLines]_vars

\* The list handlers alone, from an empty list: files and folders are added,
\* entries selected, removed and moved, the list cleared.
PickedFiles ==
  {<<f>> : f \in ListPicks} \cup {pair \in ListPicks \X ListPicks : pair[1] # pair[2]}

NextList ==
  \/ \E files \in PickedFiles : Fits(files, MaxList) /\ AddFiles(files)
  \/ \E folder \in {<<>>, InDir} :
       /\ Len(add_folder(ListGui, folder, Listing).images) <= MaxList
       /\ AddFolder(folder, Listing)
  \/ \E sel \in SUBSET (1..Len(listbox)) : SelectItems(sel)
  \/ RemoveSelected
  \/ ClearList
  \/ \E delta \in {-1, 1} : MoveItem(delta)

SpecList == InitEdit /\ [][NextList]_vars

\* ============================================================= properties
\* C21: after any sequence of add-file, add-folder, remove, clear and move
\* operations the image list contains no path twice.
C21_NoPathTwice == NoRepeat(images)

\* The list holds a folder's image ahead of a picked file that was added before
\* it (an order only a move gives), and offering a listed path again adds nothing.
C21_Witness ==
  /\ images = <<join(InDir, <<"b", ".jpg">>), ImgD, ImgA>>
  /\ add_files(ListGui, <<ImgD>>) = ListGui

InFlight(r) == runs[r].st \in {"pending", "active"}

Idle == start_btn = "normal" /\ cancel_btn = "disabled"

Titles(r) == {runs[r].reports[i].title : i \in 1..Len(runs[r].reports)}

\* C1: at most one conversion is in flight (scheduled, staging or running) at any
\* time, whatever Start clicks, Cancel clicks, timer firings and pumps occur.
C1_OneInFlight == Cardinality({r \in Runs : InFlight(r)}) <= 1

\* C2: a run whose child was sent terminate() by Cancel while it was running is
\* never reported as done and never as the generic "ffmpeg failed" error.
C2_CancelledOutcome ==
  \A r \in Runs :
    runs[r].st = "active" /\ proc[r].term =>
      \A i \in 1..Len(runs[r].reports) :
        /\ runs[r].reports[i].title # "Done"
        /\ runs[r].reports[i] # ExitReport(1, <<>>)

\* C3: whenever Start is enabled and Cancel is disabled, no run's temporary
\* directory exists (a directory whose deletion was attempted and failed is not
\* counted against the claim here).
C3_IdleNoTempDir == Idle => \A r \in Runs : tmp[r].st # "exists"

\* C4: a run in flight has been reported as done if and only if the child that
\* this same run launched has exited with code 0.
C4_DoneIffOwnChildZero ==
  \A r \in Runs :
    runs[r].st = "active" /\ runs[r].reports # <<>> =>
      ("Done" \in Titles(r) <=> proc[r].st = "exited" /\ proc[r].rc = 0)

\* C5: a run whose staging stopped at a failed copy is not reported with the
\* dialog that announces a missing ffmpeg executable.
C5_CopyFailureDistinct ==
  \A r \in Runs :
    runs[r].st = "active" /\ runs[r].list # <<>> /\ ~runs[r].staged =>
      "ffmpeg not found" \notin Titles(r)

\* The dialog of a run whose staging completed and whose Popen raised
\* FileNotFoundError is on top of the stack.
NotFoundAtLaunch ==
  /\ stack # <<>>
  /\ Top.pc = "msgbox"
  /\ Top.exc = "FileNotFoundError"
  /\ runs[Top.run].staged

NotFoundReported ==
  runs[Top.run].reports = <<Report("ffmpeg not found", <<"ffmpeg executable not found">>)>>

\* C6 (as amended): when the executable is not found at launch, the run's one
\* report is the "ffmpeg not found" dialog, and when the run ends its temp dir
\* has been removed, or its deletion was attempted and failed with the error
\* swallowed, and Start is enabled and Cancel disabled.
C6_NotFoundCleansUp ==
  [][NotFoundAtLaunch /\ stack' = Pop =>
       /\ NotFoundReported
       /\ tmp'[Top.run].st \in {"removed", "leftover"}
       /\ Idle']_vars

\* C6 (as stated): the same, with the temp dir removed in every case.
C6_NotFoundRemoves ==
  [][NotFoundAtLaunch /\ stack' = Pop =>
       /\ NotFoundReported
       /\ tmp'[Top.run].st = "removed"
       /\ Idle']_vars

\* The newer build after such a run: the log ends with the command line, the run is
\* over, its temp dir is gone and the buttons are back.
C6_Witness ==
  /\ build = "v2"
  /\ Idle
  /\ \E r \in Runs :
       /\ runs[r].st = "done"
       /\ tmp[r].st = "removed"
       /\ log_text # <<>>
       /\ log_text[Len(log_text)][1] = "Running"
       /\ log_text[Len(log_text)][2] = r

\* C7: for a run in flight, the list staged is the list held when Start was
\* accepted, the child's argument vector is the one built from the options held
\* then, and a "Done" report names the output path held then.
C7_InputsFrozen ==
  \A r \in Runs :
    runs[r].st = "active" =>
      /\ runs[r].list = runs[r].snap.images
      /\ proc[r].st = "running" =>
           proc[r].argv = BuildCmd(ffmpeg_path, Pattern(r, Suffix(runs[r].snap.images[1])),
                                   runs[r].snap)
      /\ \A i \in 1..Len(runs[r].reports) :
           runs[r].reports[i].title = "Done" => runs[r].reports[i].text = runs[r].snap.output

IsDigit(c) == c \in {"0", "1", "2", "3", "4", "5", "6", "7", "8", "9"}

PositiveInt(text) ==
  /\ text # <<>>
  /\ \A i \in 1..Len(text) : IsDigit(text[i])
  /\ \E i \in 1..Len(text) : text[i] # "0"

\* The options the chosen format uses are out of range.
BadOptions(in) ==
  \/ in.format = "MP4" /\ in.crf \notin 0..51
  \/ in.format = "GIF" /\ Strip(in.scale) # <<>> /\ ~PositiveInt(Strip(in.scale))

\* C8: a run started with a quality outside 0..51 or with a scale width that is
\* present but not a positive integer launches no child process.
C8_InvalidOption ==
  \A r \in Runs : runs[r].st = "active" /\ BadOptions(runs[r].snap) => proc[r].st = "none"

\* C9: a run over more images than Width digits can number does not complete
\* staging and launches no child process.
C9_TooManyFrames ==
  \A r \in Runs :
    runs[r].st = "active" /\ Len(runs[r].list) > Capacity =>
      ~runs[r].staged /\ proc[r].st = "none"

DigitValue(c) == CHOOSE d \in 0..9 : DigitChar(d) = c

RECURSIVE ParseInt(_)
ParseInt(text) ==
  IF text = <<>> THEN 0
  ELSE 10 * ParseInt(SubSeq(text, 1, Len(text) - 1)) + DigitValue(text[Len(text)])

\* The number a staged file's name reads as: the digits between "img" and the suffix.
FrameNumber(name) == ParseInt(SubSeq(name, 2, Len(name) - 1))

\* C10: after staging has completed over a list of n unique paths, the temp dir
\* holds exactly n files, and for every i in 1..n the file numbered i is a copy
\* of the i-th entry.
C10_StagedInOrder ==
  \A r \in Runs :
    runs[r].staged /\ tmp[r].st = "exists" =>
      /\ Cardinality(tmp[r].files) = Len(runs[r].list)
      /\ \A i \in 1..Len(runs[r].list) :
           \E f \in tmp[r].files : FrameNumber(f[1]) = i /\ f[2] = runs[r].list[i]

C10_Witness ==
  \E r \in Runs :
    /\ runs[r].staged
    /\ tmp[r].st = "exists"
    /\ Len(runs[r].list) >= 2
    /\ Cardinality(tmp[r].files) = Len(runs[r].list)

\* C11: a run whose image list is empty when staging begins creates no temporary
\* directory and launches no child process.
C11_EmptyListCreatesNothing ==
  \A r \in Runs :
    runs[r].st = "active" /\ runs[r].list = <<>> => tmp[r].st = "none" /\ proc[r].st = "none"

\* C12: a click on Cancel made while the child of a run is running leads to the
\* child being sent terminate(), or at least to the run being over.
C12_CancelActedOn ==
  \A r \in Runs :
    (clicks /\ ffmpeg_proc = r /\ proc[r].st = "running")
      ~> (proc[r].term \/ runs[r].st = "done")

\* C13: while a run is in flight and its child is alive, the child or run_ffmpeg
\* can take a step: the two never wait for each other over a full pipe.
C13_NoPipeDeadlock ==
  \A r \in Runs :
    runs[r].st = "active" /\ proc[r].st = "running" => ENABLED (Returns \/ ChildMoves)

\* C14: when a run has reported its outcome, no line its child printed is still
\* unread in the pipe (lines are logged as they are read, so an unread line is a
\* line that never reaches the log).
C14_NoLineDropped ==
  \A r \in Runs : runs[r].st = "active" /\ runs[r].reports # <<>> => proc[r].pipe = <<>>

IsLine(entry) == entry[1] = "line"

\* C15: any two lines of one run that are in the log are there in the order the
\* child printed them.
C15_LinesInOrder ==
  \A i, j \in 1..Len(log_text) :
    i < j /\ IsLine(log_text[i]) /\ IsLine(log_text[j]) /\ log_text[i][2] = log_text[j][2]
      => log_text[i][3] < log_text[j][3]

C15_Witness ==
  \E i, j \in 1..Len(log_text) :
    /\ i < j
    /\ IsLine(log_text[i])
    /\ IsLine(log_text[j])
    /\ log_text[i][2] = log_text[j][2]
    /\ log_text[i][3] < log_text[j][3]

\* C16: a run whose run_ffmpeg is over, by returning or by an exception that left
\* it, has shown exactly one outcome dialog.
C16_OneOutcome == \A r \in Runs : runs[r].st \in {"done", "crashed"} => runs[r].nrep = 1

\* C17: cancel_conversion invoked while no child is running (none launched yet,
\* or the one held has exited) changes nothing.
C17_CancelNoOp == [][cancel_conversion /\ ~cancel_terminates => UNCHANGED vars]_vars

\* C18: wherever the event loop can run cancel_conversion, running it a second
\* time leaves what the first run of it left.
C18_CancelIdempotent == PumpAll => cancel_result(cancel_result(Gui)) = cancel_result(Gui)

\* Cancel has sent terminate() to a child that is still running, and the event
\* loop can run cancel_conversion again.
C18_Witness ==
  /\ PumpAll
  /\ cancel_terminates
  /\ proc[ffmpeg_proc].term
  /\ cancel_result(Gui).proc = proc

\* The integer a decimal numeral reads as.
IntOf(text) == IF Head(text) = "-" THEN 0 - ParseInt(Tail(text)) ELSE ParseInt(text)

\* C19: for format MP4 the child's argument vector is, in this order: encoder,
\* -y, -framerate, fps, -i, pattern, -c:v, codec, -crf, quality, -pix_fmt,
\* yuv420p, output path.
C19_Mp4Argv ==
  \A r \in Runs :
    runs[r].st = "active" /\ proc[r].st # "none" /\ runs[r].snap.format = "MP4" =>
      LET a == proc[r].argv
          in == runs[r].snap
      IN /\ Len(a) = 13
         /\ a[1] = ffmpeg_path
         /\ a[2] = <<"-y">>
         /\ a[3] = <<"-framerate">>
         /\ IntOf(a[4]) = in.fps
         /\ a[5] = <<"-i">>
         /\ a[6] = <<"imgseq_">> \o Digits(r) \o <<"/", "img", "%04d", Suffix(in.images[1])>>
         /\ a[7] = <<"-c:v">>
         /\ a[8] = <<in.codec>>
         /\ a[9] = <<"-crf">>
         /\ IntOf(a[10]) = in.crf
         /\ a[11] = <<"-pix_fmt">>
         /\ a[12] = <<"yuv420p">>
         /\ a[13] = in.output

C19_Witness ==
  \E r \in Runs :
    /\ runs[r].st = "active"
    /\ proc[r].st = "running"
    /\ runs[r].snap.format = "MP4"
    /\ runs[r].snap.codec = "mpeg4"
    /\ runs[r].snap.fps = 240
    /\ runs[r].snap.crf = 51
    /\ runs[r].snap.output = OutUser
    /\ Len(proc[r].argv) = 13

\* The filter chain vf holds the palettegen / paletteuse graph, in that order.
HasPalette(vf) ==
  \E i, j \in 1..Len(vf) :
    /\ i < j
    /\ vf[i] = "palettegen=stats_mode=full"
    /\ vf[j] = "paletteuse=dither=floyd_steinberg"

\* The filter chain vf starts with the step scale=<w>:-1:flags=lanczos and a comma.
StartsWithScale(vf, w) ==
  /\ Len(vf) > Len(w) + 3
  /\ vf[1] = "scale="
  /\ SubSeq(vf, 2, Len(w) + 1) = w
  /\ vf[Len(w) + 2] = ":-1:flags=lanczos"
  /\ vf[Len(w) + 3] = ","

\* C20: for format GIF the -vf argument always holds the palettegen
\* (stats_mode=full) / paletteuse (dither=floyd_steinberg) graph, and the graph
\* is preceded by the step scale=<W>:-1:flags=lanczos exactly when a scale width
\* W (the field without surrounding blanks) was supplied; no other step occurs.
C20_GifFilterChain ==
  \A r \in Runs :
    runs[r].st = "active" /\ proc[r].st # "none" /\ runs[r].snap.format = "GIF" =>
      LET vf == proc[r].argv[8]
          w == Strip(runs[r].snap.scale)
      IN /\ proc[r].argv[7] = <<"-vf">>
         /\ HasPalette(vf)
         /\ IF w # <<>>
            THEN StartsWithScale(vf, w) /\ HasPalette(SubSeq(vf, Len(w) + 4, Len(vf)))
            ELSE \A i \in 1..Len(vf) : vf[i] \notin {"scale=", ":-1:flags=lanczos"}

C20_Witness ==
  \E r \in Runs :
    /\ runs[r].st = "active"
    /\ proc[r].st = "running"
    /\ runs[r].snap.format = "GIF"
    /\ runs[r].snap.scale = <<"4", "8", "0">>
    /\ StartsWithScale(proc[r].argv[8], <<"4", "8", "0">>)

\* C22: every accepted Start eventually brings the converter back to Idle (Start
\* enabled, Cancel disabled), whichever step fails along the way, including
\* failure to create the temporary directory.
C22_StartReturnsToIdle == \A r \in Runs : runs[r].st = "pending" ~> Idle

\* The dialog reporting that staging failed in run r is on the screen.
StagingFailureShown(r) ==
  /\ ~runs[r].staged
  /\ \E i \in 1..Len(stack) : stack[i].run = r /\ stack[i].pc = "msgbox"

\* C23: when staging fails, the temp directory has already been removed at the
\* moment the failure is reported to the user.
C23_RemovedBeforeReport ==
  \A r \in Runs : StagingFailureShown(r) => tmp[r].st = "removed"

\* Staging raised in run r, and run_ffmpeg has not returned yet.
StagingFailed(r) == runs[r].st = "active" /\ ~runs[r].staged

\* C24: whenever staging raises any error, no child process is launched for
\* that run: there is none while the error is handled, and none when run_ffmpeg
\* returns.
C24_NoLaunchAfterStagingError ==
  /\ [](\A r \in Runs : StagingFailed(r) => proc[r].st = "none")
  /\ [][\A r \in Runs : StagingFailed(r) => proc'[r].st = "none"]_vars

\* Staging has failed on the second file: the first is in the temp directory.
C24_Witness == \E r \in Runs : StagingFailed(r) /\ tmp[r].files # {} /\ proc[r].st = "none"

\* The lines of the log that state how a conversion ended.
OutcomeLines(text) ==
  {i \in 1..Len(text) : text[i][1] \in {"Finished successfully", "ffmpeg exited with code"}}

\* C25: a failure to delete the temp directory never changes the outcome already
\* determined for the run (no further dialog, no further outcome line in the
\* log), and the converter still returns to Idle.
C25_CleanupFailureHarmless ==
  [][\A r \in Runs :
       tmp[r].st = "exists" /\ tmp'[r].st = "leftover" =>
         /\ runs'[r].st = "done"
         /\ runs'[r].nrep = runs[r].nrep
         /\ OutcomeLines(log_text') = OutcomeLines(log_text)
         /\ Idle']_vars

\* A run has ended with its outcome reported, the deletion of its temp directory
\* failed, and the converter is Idle.
C25_Witness ==
  \E r \in Runs : tmp[r].st = "leftover" /\ runs[r].st = "done" /\ runs[r].nrep = 1 /\ Idle

\* What the encoder's printf-style expansion writes for a frame number under the
\* conversion %0<width>d (%d: width 0): its decimal digits, with zeros in front
\* while they are fewer than width.
RECURSIVE Zeros(_)
Zeros(k) == IF k <= 0 THEN <<>> ELSE <<"0">> \o Zeros(k - 1)

PrintfD(width, n) == Zeros(width - Len(Digits(n))) \o Digits(n)

\* The file name the encoder opens for frame n of a pattern.
RECURSIVE Expand(_, _)
Expand(pattern, n) ==
  IF pattern = <<>> THEN <<>>
  ELSE (CASE Head(pattern) = "%04d" -> PrintfD(4, n)
          [] Head(pattern) = "%d" -> PrintfD(0, n)
          [] OTHER -> <<Head(pattern)>>) \o Expand(Tail(pattern), n)

\* The pattern in the argument vector of the child of run r: what follows -i.
PatternOf(r) == proc[r].argv[1 + CHOOSE k \in 1..Len(proc[r].argv) : proc[r].argv[k] = <<"-i">>]

\* C26: the pattern handed to the encoder names exactly the staged files: for
\* every i in 1..n, substituting i for the pattern's %04d token yields the name
\* of the i-th staged file (the copy of the i-th list entry), and the pattern
\* carries the extension of the first list entry.
C26_PatternNamesStaged ==
  \A r \in Runs :
    runs[r].staged /\ tmp[r].st = "exists" /\ proc[r].argv # <<>> =>
      /\ {<<Expand(PatternOf(r), i), runs[r].list[i]>> : i \in 1..Len(runs[r].list)}
           = {<<join(TmpName(r), f[1]), f[2]>> : f \in tmp[r].files}
      /\ PatternOf(r)[Len(PatternOf(r))] = Suffix(runs[r].list[1])

\* The child has been started over a staged list with more frames than four
\* digits count.
C26_Witness ==
  \E r \in Runs :
    /\ runs[r].staged
    /\ tmp[r].st = "exists"
    /\ proc[r].argv # <<>>
    /\ Len(runs[r].list) > Capacity

\* Run r was accepted and Cancel was clicked before its run_ffmpeg began: with
\* one Start only, nothing else resets the buttons while the run is pending.
CancelledInDelay(r) == runs[r].st = "pending" /\ Idle

\* C28: a Cancel issued after Start was accepted but before the child process
\* has been launched (during the 100 ms delay) prevents that run from staging
\* files or launching a child.
C28_CancelInDelayPrevents ==
  [][\A r \in Runs : CancelledInDelay(r) => tmp'[r].st = "none" /\ proc'[r].st = "none"]_vars

\* Where the item x stands in list.
PositionOf(list, x) == CHOOSE i \in 1..Len(list) : list[i] = x

IsPermutation(a, b) ==
  /\ Len(a) = Len(b)
  /\ \A x \in {a[i] : i \in 1..Len(a)} :
       Cardinality({i \in 1..Len(a) : a[i] = x}) = Cardinality({i \in 1..Len(b) : b[i] = x})

\* after is before with every item at a position of sel one place further in
\* direction delta where that place exists, the items of sel in their old order.
MovedOnePlace(before, sel, delta, after) ==
  /\ IsPermutation(before, after)
  /\ \A p \in sel : p + delta \in 1..Len(before) => after[p + delta] = before[p]
  /\ \A p, q \in sel :
       p < q => PositionOf(after, before[p]) < PositionOf(after, before[q])

\* C27: move_item(delta) applied to a selection of several items moves every
\* selected item exactly one position in direction delta when that position is
\* in range, keeps the relative order of the selected items, and leaves the
\* list a permutation of its previous contents.
C27_MoveSeveral ==
  PumpAll /\ Cardinality(selection) > 1 =>
    \A delta \in {-1, 1} :
      MovedOnePlace(images, selection, delta, move_item(build, ListGui, delta).images)

\* C29: after every list operation (add, remove, clear, move) the listbox shows
\* exactly the entries of the image list, in the same order.
C29_ListboxShowsList == listbox = images

\* Files and a folder were added, the folder's first image was removed again and
\* an entry moved; an entry is selected, and the listbox shows the list.
C29_Witness ==
  /\ images = <<join(InDir, <<"b", ".jpg">>), ImgC, ImgA>>
  /\ listbox = images
  /\ selection = {2}

====
